---- MODULE Spec2Model ----
(***************************************************************************)
(* State-machine model of the chat plugin: the authority-side              *)
(* UChatSubsystem (settings, history, registered components, per-player    *)
(* rate limiter) and the per-player UChatComponent (mute list, local last  *)
(* send time).                                                             *)
(*                                                                         *)
(* Abstractions, all stated here:                                          *)
(*  - an FString is modelled by its length (the code only reads IsEmpty    *)
(*    and Len of the content);                                             *)
(*  - time is an integer number of ticks; World->GetTimeSeconds and        *)
(*    FDateTime::Now advance together;                                     *)
(*  - a pawn location is a point on a line, DistSquared its squared        *)
(*    difference;                                                          *)
(*  - every component is owned by a PlayerState and a PlayerState owns at  *)
(*    most one component, so a component is named by its owner;            *)
(*  - a client RPC (ClientReceiveMessage, ClientNotifyMessageFailed) runs  *)
(*    in the step that issues it;                                          *)
(*  - settings are drawn with MaxHistorySize >= 0;                         *)
(*  - the subsystem's functions and the components' RPC handlers are       *)
(*    called on the game thread and run to completion: the code starts no  *)
(*    thread and takes no lock, so calls interleave, their bodies do not.  *)
(***************************************************************************)
EXTENDS Integers, Sequences, FiniteSets, TLC

VARIABLES
    bHasAuthority,        \* World->GetAuthGameMode() is non-null on this instance
    now,                  \* World->GetTimeSeconds(), in ticks
    ChatSettings,         \* UChatSubsystem::ChatSettings
    MessageHistory,       \* UChatSubsystem::MessageHistory
    RegisteredComponents, \* UChatSubsystem::RegisteredComponents
    PlayerMessageTimes,   \* UChatSubsystem::PlayerMessageTimes
    MutedPlayers,         \* UChatComponent::MutedPlayers, per component
    LastMessageTime,      \* UChatComponent::LastMessageTime, per component
    pawn,                 \* PlayerState->GetPawn()->GetActorLocation(), where a pawn exists
    spawned,              \* per component: it exists on this instance (BeginPlay has run
                          \*   once; an ended component lingers until it is collected)
    last,                 \* observation: what the last operation did and sent
    commits,              \* observation: the number of messages committed so far; the
                          \*   n-th committed message carries Id = n
    windowStart,          \* observation: commits at the last ClearMessageHistory or
                          \*   change of MaxHistorySize
    acceptedAt,           \* observation: per sender, the time of its last accepted
                          \*   BroadcastMessage
    purged,               \* observation: per player, its component was unregistered after
                          \*   its last accepted submission
    everSent              \* observation: per component, one of its Send functions has
                          \*   issued a ServerSendMessage

authVars   == <<bHasAuthority, ChatSettings, MessageHistory, RegisteredComponents,
                PlayerMessageTimes>>
clientVars == <<MutedPlayers, LastMessageTime>>
worldVars  == <<now, pawn, spawned>>
ghostVars  == <<last, commits, windowStart, acceptedAt, purged, everSent>>
vars       == <<authVars, clientVars, worldVars, ghostVars>>

(***************************************************************************)
(* Bounds of the model.                                                    *)
(***************************************************************************)
MaxTime    == 3
MaxCommits == 3
MaxCoord   == 2

(***************************************************************************)
(* Program constants.                                                      *)
(***************************************************************************)
HardCap == 1024

(***************************************************************************)
(* Values.                                                                 *)
(***************************************************************************)
None     == "None"
Players  == {"p1", "p2", "p3"}
EChatChannel == {"Global", "Team", "Whisper", "System", "Proximity", "Custom"}

\* The component attached to a PlayerState, and its owner.
GetOwner(Component) == Component
GetOwningPlayerState(Component) == GetOwner(Component)
GetPlayerName(PlayerState) == PlayerState

FChatSettings(len, cooldown, hist, radius, allowEmpty) ==
    [MaxMessageLength    |-> len,
     MessageCooldown     |-> cooldown,
     MaxHistorySize      |-> hist,
     ProximityChatRadius |-> radius,
     bAllowEmptyMessages |-> allowEmpty]

FChatMessage(InSender, InContent, InChannel, t) ==
    [Sender        |-> InSender,
     SenderName    |-> IF InSender # None THEN GetPlayerName(InSender) ELSE "System",
     Content       |-> InContent,
     Channel       |-> InChannel,
     Timestamp     |-> t,
     WhisperTarget |-> None,
     Id            |-> 0]

NoMessage ==
    [Sender |-> None, SenderName |-> "", Content |-> 0, Channel |-> "None",
     Timestamp |-> 0, WhisperTarget |-> None, Id |-> 0]

Reason(kind, arg) == [kind |-> kind, arg |-> arg]
NoReason == Reason("None", 0)

(***************************************************************************)
(* TMap and TArray helpers.                                                *)
(***************************************************************************)
EmptyMap == [k \in {} |-> 0]

\* TMap::Add dropping the other keys of the map.
MapAdd_DropsOthers(m, k, v) == [x \in {k} |-> v]

MapAdd(m, k, v) == [x \in (DOMAIN m) \cup {k} |-> IF x = k THEN v ELSE m[x]]
MapRemove(m, k) == [x \in (DOMAIN m) \ {k} |-> m[x]]

Contains(arr, x) == \E i \in 1..Len(arr) : arr[i] = x
Remove(arr, x)   == SelectSeq(arr, LAMBDA e : e # x)
Range(arr)       == {arr[i] : i \in 1..Len(arr)}

(***************************************************************************)
(* UChatSubsystem: validation, rate limiting, history, routing.            *)
(***************************************************************************)

\* ValidateMessage without its length check.
ValidateMessage_NoLength(Message, Settings) ==
    IF Message.Content = 0 /\ ~Settings.bAllowEmptyMessages
        THEN [ok |-> FALSE, reason |-> Reason("Empty", 0)]
    ELSE IF Message.Channel # "System" /\ Message.Sender = None
        THEN [ok |-> FALSE, reason |-> Reason("InvalidSender", 0)]
    ELSE IF Message.Channel = "Whisper" /\ Message.WhisperTarget = None
        THEN [ok |-> FALSE, reason |-> Reason("NoWhisperTarget", 0)]
    ELSE [ok |-> TRUE, reason |-> NoReason]

\* ValidateMessage with the whisper-target check moved to the front.
ValidateMessage_TargetFirst(Message, Settings) ==
    IF Message.Channel = "Whisper" /\ Message.WhisperTarget = None
        THEN [ok |-> FALSE, reason |-> Reason("NoWhisperTarget", 0)]
    ELSE IF Message.Content = 0 /\ ~Settings.bAllowEmptyMessages
        THEN [ok |-> FALSE, reason |-> Reason("Empty", 0)]
    ELSE IF Message.Content > Settings.MaxMessageLength
        THEN [ok |-> FALSE, reason |-> Reason("TooLong", Settings.MaxMessageLength)]
    ELSE IF Message.Channel # "System" /\ Message.Sender = None
        THEN [ok |-> FALSE, reason |-> Reason("InvalidSender", 0)]
    ELSE [ok |-> TRUE, reason |-> NoReason]

\* ValidateMessage without its whisper-target check.
ValidateMessage_NoTarget(Message, Settings) ==
    IF Message.Content = 0 /\ ~Settings.bAllowEmptyMessages
        THEN [ok |-> FALSE, reason |-> Reason("Empty", 0)]
    ELSE IF Message.Content > Settings.MaxMessageLength
        THEN [ok |-> FALSE, reason |-> Reason("TooLong", Settings.MaxMessageLength)]
    ELSE IF Message.Channel # "System" /\ Message.Sender = None
        THEN [ok |-> FALSE, reason |-> Reason("InvalidSender", 0)]
    ELSE [ok |-> TRUE, reason |-> NoReason]

\* ValidateMessage: the first failing check decides the reason.
ValidateMessage(Message, Settings) ==
    IF Message.Content = 0 /\ ~Settings.bAllowEmptyMessages
        THEN [ok |-> FALSE, reason |-> Reason("Empty", 0)]
    ELSE IF Message.Content > Settings.MaxMessageLength
        THEN [ok |-> FALSE, reason |-> Reason("TooLong", Settings.MaxMessageLength)]
    ELSE IF Message.Channel # "System" /\ Message.Sender = None
        THEN [ok |-> FALSE, reason |-> Reason("InvalidSender", 0)]
    ELSE IF Message.Channel = "Whisper" /\ Message.WhisperTarget = None
        THEN [ok |-> FALSE, reason |-> Reason("NoWhisperTarget", 0)]
    ELSE [ok |-> TRUE, reason |-> NoReason]

\* IsPlayerRateLimited comparing with <= : a submission exactly one cooldown later is
\* still refused.
IsPlayerRateLimited_Inclusive(PlayerState, Times, Settings, CurrentTime) ==
    IF PlayerState = None
        THEN [limited |-> FALSE, reason |-> NoReason, times |-> Times]
    ELSE IF PlayerState \in DOMAIN Times
            /\ CurrentTime - Times[PlayerState] <= Settings.MessageCooldown
        THEN [limited |-> TRUE,
              reason  |-> Reason("RateLimited",
                                 Settings.MessageCooldown
                                   - (CurrentTime - Times[PlayerState])),
              times   |-> Times]
    ELSE [limited |-> FALSE, reason |-> NoReason,
          times   |-> MapAdd(Times, PlayerState, CurrentTime)]

\* IsPlayerRateLimited recording the time of a refused submission too.
IsPlayerRateLimited_RecordsRefused(PlayerState, Times, Settings, CurrentTime) ==
    IF PlayerState = None
        THEN [limited |-> FALSE, reason |-> NoReason, times |-> Times]
    ELSE IF PlayerState \in DOMAIN Times
            /\ CurrentTime - Times[PlayerState] < Settings.MessageCooldown
        THEN [limited |-> TRUE,
              reason  |-> Reason("RateLimited",
                                 Settings.MessageCooldown
                                   - (CurrentTime - Times[PlayerState])),
              times   |-> MapAdd(Times, PlayerState, CurrentTime)]
    ELSE [limited |-> FALSE, reason |-> NoReason,
          times   |-> MapAdd(Times, PlayerState, CurrentTime)]

\* IsPlayerRateLimited: the verdict, the reason, and PlayerMessageTimes afterwards.
IsPlayerRateLimited(PlayerState, Times, Settings, CurrentTime) ==
    IF PlayerState = None
        THEN [limited |-> FALSE, reason |-> NoReason, times |-> Times]
    ELSE IF PlayerState \in DOMAIN Times
            /\ CurrentTime - Times[PlayerState] < Settings.MessageCooldown
        THEN [limited |-> TRUE,
              reason  |-> Reason("RateLimited",
                                 Settings.MessageCooldown
                                   - (CurrentTime - Times[PlayerState])),
              times   |-> Times]
    ELSE [limited |-> FALSE, reason |-> NoReason,
          times   |-> MapAdd(Times, PlayerState, CurrentTime)]

\* The trimming loop removing the newest message instead of the oldest.
RECURSIVE TrimHistory_FromTail(_, _)
TrimHistory_FromTail(History, MaxHistorySize) ==
    IF Len(History) > MaxHistorySize /\ Len(History) > 0
        THEN TrimHistory_FromTail(SubSeq(History, 1, Len(History) - 1), MaxHistorySize)
        ELSE History

\* The trimming loop of AddToHistory: RemoveAt(0) while the array is too long.
RECURSIVE TrimHistory(_, _)
TrimHistory(History, MaxHistorySize) ==
    IF Len(History) > MaxHistorySize /\ Len(History) > 0
        THEN TrimHistory(Tail(History), MaxHistorySize)
        ELSE History

AddToHistory(History, Message, Settings) ==
    TrimHistory(Append(History, Message), Settings.MaxHistorySize)

\* GetRecentMessages returning the oldest Count messages.
GetRecentMessages_FromHead(History, Count) ==
    IF Count <= 0 \/ Count >= Len(History)
        THEN History
        ELSE SubSeq(History, 1, Count)

GetRecentMessages(History, Count) ==
    IF Count <= 0 \/ Count >= Len(History)
        THEN History
        ELSE LET StartIndex == IF Len(History) - Count > 0 THEN Len(History) - Count ELSE 0
             IN  SubSeq(History, StartIndex + 1, Len(History))

\* GetChatComponentForPlayer finding the player's component whether or not it is
\* registered.
GetChatComponentForPlayer_Unregistered(PlayerState, Components) == PlayerState

\* GetChatComponentForPlayer: the first registered component owned by the player.
GetChatComponentForPlayer(PlayerState, Components) ==
    IF PlayerState = None THEN None
    ELSE LET hits == SelectSeq(Components, LAMBDA c : GetOwner(c) = PlayerState)
         IN  IF Len(hits) = 0 THEN None ELSE hits[1]

\* SendToAllPlayers leaving out the first registered component.
SendToAllPlayers_SkipFirst(Message, Components) ==
    IF Components = <<>> THEN <<>>
    ELSE SelectSeq(Tail(Components), LAMBDA c : GetOwner(c) # None)

\* Each Send* gives the components ClientReceiveMessage is called on, in call order.
SendToAllPlayers(Message, Components) ==
    SelectSeq(Components, LAMBDA c : GetOwner(c) # None)

\* SendToTeam without the fallback to all players.
SendToTeam_Nobody(Message, Components) == <<>>

SendToTeam(Message, Components) ==
    IF Message.Sender = None THEN <<>> ELSE SendToAllPlayers(Message, Components)

\* SendToPlayer sending the whisper to every registered component.
SendToPlayer_ToAll(Message, Components) ==
    SelectSeq(Components, LAMBDA c : GetOwner(c) # None)

SendToPlayer(Message, Components) ==
    IF Message.WhisperTarget = None THEN <<>>
    ELSE LET TargetComponent == GetChatComponentForPlayer(Message.WhisperTarget, Components)
             SenderComponent == GetChatComponentForPlayer(Message.Sender, Components)
         IN  (IF TargetComponent # None THEN <<TargetComponent>> ELSE <<>>)
             \o (IF Message.Sender # None /\ SenderComponent # None
                   THEN <<SenderComponent>> ELSE <<>>)

DistSquared(a, b) == (a - b) * (a - b)

\* InProximity with the boundary excluded.
InProximity_Strict(SenderLocation, Location, Settings) ==
    DistSquared(SenderLocation, Location)
        < Settings.ProximityChatRadius * Settings.ProximityChatRadius

InProximity(SenderLocation, Location, Settings) ==
    DistSquared(SenderLocation, Location)
        <= Settings.ProximityChatRadius * Settings.ProximityChatRadius

SendToProximity(Message, Components, Pawns, Settings) ==
    IF Message.Sender = None THEN <<>>
    ELSE IF Message.Sender \notin DOMAIN Pawns THEN <<>>
    ELSE SelectSeq(Components,
                   LAMBDA c : /\ GetOwner(c) \in DOMAIN Pawns
                              /\ InProximity(Pawns[Message.Sender], Pawns[GetOwner(c)],
                                             Settings))

RouteMessage(Message, Components, Pawns, Settings) ==
    CASE Message.Channel \in {"Global", "System"} -> SendToAllPlayers(Message, Components)
      [] Message.Channel = "Team"      -> SendToTeam(Message, Components)
      [] Message.Channel = "Whisper"   -> SendToPlayer(Message, Components)
      [] Message.Channel = "Proximity" -> SendToProximity(Message, Components, Pawns, Settings)
      [] Message.Channel = "Custom"    -> SendToAllPlayers(Message, Components)
      [] OTHER                         -> SendToAllPlayers(Message, Components)

(***************************************************************************)
(* UChatComponent: the mute list and the receiving side.                   *)
(***************************************************************************)
IsPlayerMuted(Muted, Player) == Player # None /\ Contains(Muted, Player)

\* ClientReceiveMessage_Implementation: TRUE when OnChatMessageReceived is broadcast.
\* ClientReceiveMessage without the mute filter.
ClientReceiveMessage_NoFilter(Muted, Message) == TRUE

ClientReceiveMessage(Muted, Message) ==
    ~(Message.Sender # None /\ IsPlayerMuted(Muted, Message.Sender))

\* ServerSendMessage_Validate without the hard cap.
ServerSendMessage_Validate_NoCap(Content) == Content # 0

\* ServerSendMessage_Validate.
ServerSendMessage_Validate(Content) == Content # 0 /\ Content <= HardCap

\* ValidateMessageLocally: the verdict, the reason, and LastMessageTime afterwards.
ValidateMessageLocally(Content, LastTime, Settings, CurrentTime) ==
    IF Content = 0
        THEN [ok |-> FALSE, reason |-> Reason("Empty", 0), lastTime |-> LastTime]
    ELSE IF Content > Settings.MaxMessageLength
        THEN [ok |-> FALSE, reason |-> Reason("TooLong", Settings.MaxMessageLength),
              lastTime |-> LastTime]
    ELSE IF CurrentTime - LastTime < Settings.MessageCooldown
        THEN [ok |-> FALSE,
              reason |-> Reason("RateLimited",
                                Settings.MessageCooldown - (CurrentTime - LastTime)),
              lastTime |-> LastTime]
    ELSE [ok |-> TRUE, reason |-> NoReason, lastTime |-> CurrentTime]

\* The components among Recipients whose delegate fires for Message.
EventsOf(Recipients, Message, Mutes) ==
    SelectSeq(Recipients, LAMBDA c : ClientReceiveMessage(Mutes[c], Message))

\* BroadcastMessage without its authority check.
BroadcastMessage_NoAuthorityCheck(Message) ==
    LET v == ValidateMessage(Message, ChatSettings)
        r == IsPlayerRateLimited(Message.Sender, PlayerMessageTimes, ChatSettings, now)
    IN  IF ~v.ok
          THEN [ok |-> FALSE, reason |-> v.reason,
                times |-> PlayerMessageTimes, history |-> MessageHistory,
                recipients |-> <<>>]
        ELSE IF Message.Sender # None /\ r.limited
          THEN [ok |-> FALSE, reason |-> r.reason,
                times |-> r.times, history |-> MessageHistory,
                recipients |-> <<>>]
        ELSE [ok |-> TRUE, reason |-> NoReason,
              times |-> r.times,
              history |-> AddToHistory(MessageHistory, Message, ChatSettings),
              recipients |-> RouteMessage(Message, RegisteredComponents, pawn, ChatSettings)]

\* BroadcastMessage: the result, the reason, and the state it leaves.
BroadcastMessage(Message) ==
    IF ~bHasAuthority
        THEN [ok |-> FALSE, reason |-> Reason("OnlyServer", 0),
              times |-> PlayerMessageTimes, history |-> MessageHistory,
              recipients |-> <<>>]
    ELSE LET v == ValidateMessage(Message, ChatSettings) IN
    IF ~v.ok
        THEN [ok |-> FALSE, reason |-> v.reason,
              times |-> PlayerMessageTimes, history |-> MessageHistory,
              recipients |-> <<>>]
    ELSE LET r == IsPlayerRateLimited(Message.Sender, PlayerMessageTimes, ChatSettings, now) IN
    IF Message.Sender # None /\ r.limited
        THEN [ok |-> FALSE, reason |-> r.reason,
              times |-> r.times, history |-> MessageHistory,
              recipients |-> <<>>]
    ELSE [ok |-> TRUE, reason |-> NoReason,
          times |-> r.times,
          history |-> AddToHistory(MessageHistory, Message, ChatSettings),
          recipients |-> RouteMessage(Message, RegisteredComponents, pawn, ChatSettings)]

(***************************************************************************)
(* Observations.                                                           *)
(***************************************************************************)
\* op: the operation; by: the component it ran on; msg: the message it built;
\* ok, reason: its result; recipients: the components ClientReceiveMessage was called
\* on; events: those whose OnChatMessageReceived fired; notified: the components
\* ClientNotifyMessageFailed was called on; sent: the ServerSendMessage RPCs issued;
\* count, returned: the argument and the result of GetRecentMessages; player: the
\* argument of MutePlayer and UnmutePlayer.
Obs(op, by, msg, ok, reason, recipients, events, notified) ==
    [op |-> op, by |-> by, msg |-> msg, ok |-> ok, reason |-> reason,
     recipients |-> recipients, events |-> events, notified |-> notified,
     sent |-> <<>>, count |-> 0, returned |-> <<>>, player |-> None]

Quiet(op) == Obs(op, None, NoMessage, TRUE, NoReason, <<>>, <<>>, <<>>)

(***************************************************************************)
(* Initial state: the constructors, with the settings as configured.       *)
(***************************************************************************)
InitWith(Settings, Pawns) ==
    /\ bHasAuthority \in BOOLEAN
    /\ now = 0
    /\ ChatSettings \in Settings
    /\ MessageHistory = <<>>
    /\ RegisteredComponents = <<>>
    /\ PlayerMessageTimes = EmptyMap
    /\ MutedPlayers = [c \in Players |-> <<>>]
    /\ LastMessageTime = [c \in Players |-> 0]
    /\ pawn \in Pawns
    /\ spawned = [c \in Players |-> FALSE]
    /\ last = Quiet("Init")
    /\ commits = 0
    /\ acceptedAt = EmptyMap
    /\ windowStart = 0
    /\ purged = [p \in Players |-> FALSE]
    /\ everSent = [c \in Players |-> FALSE]

(***************************************************************************)
(* Actions.                                                                *)
(***************************************************************************)

\* The world clock advances.
Tick ==
    /\ now < MaxTime
    /\ now' = now + 1
    /\ last' = Quiet("Tick")
    /\ UNCHANGED <<authVars, clientVars, pawn, spawned, commits, windowStart, acceptedAt,
                   purged, everSent>>

\* A pawn is spawned, moved or destroyed by the game.
SetPawn(Player, Location) ==
    /\ pawn' = MapAdd(pawn, Player, Location)
    /\ pawn' # pawn
    /\ last' = Quiet("SetPawn")
    /\ UNCHANGED <<authVars, clientVars, now, spawned, commits, windowStart, acceptedAt,
                   purged, everSent>>

\* BeginPlay: the component registers with the subsystem.
RegisterChatComponent(Component) ==
    /\ RegisteredComponents' =
          IF Component # None /\ ~Contains(RegisteredComponents, Component)
              THEN Append(RegisteredComponents, Component)
              ELSE RegisteredComponents
    /\ spawned' = [spawned EXCEPT ![Component] = TRUE]
    /\ last' = Quiet("Register")
    /\ UNCHANGED <<bHasAuthority, ChatSettings, MessageHistory, PlayerMessageTimes,
                   clientVars, now, pawn, commits, windowStart, acceptedAt, purged, everSent>>

\* EndPlay: the component unregisters; its owner's rate-limit entry is removed.
UnregisterChatComponent(Component) ==
    /\ RegisteredComponents' = Remove(RegisteredComponents, Component)
    /\ PlayerMessageTimes' = MapRemove(PlayerMessageTimes, GetOwner(Component))
    /\ purged' = [purged EXCEPT ![GetOwner(Component)] = TRUE]
    /\ last' = [Quiet("Unregister") EXCEPT !.by = Component]
    /\ UNCHANGED <<bHasAuthority, ChatSettings, MessageHistory,
                   clientVars, worldVars, commits, windowStart, acceptedAt, everSent>>

SetChatSettings(NewSettings) ==
    /\ ChatSettings' = IF bHasAuthority THEN NewSettings ELSE ChatSettings
    /\ windowStart' =
          IF ChatSettings'.MaxHistorySize # ChatSettings.MaxHistorySize
              THEN commits ELSE windowStart
    /\ last' = Quiet("SetSettings")
    /\ UNCHANGED <<bHasAuthority, MessageHistory, RegisteredComponents, PlayerMessageTimes,
                   clientVars, worldVars, commits, acceptedAt, purged, everSent>>

ClearMessageHistory ==
    /\ MessageHistory' = <<>>
    /\ windowStart' = commits
    /\ last' = Quiet("ClearHistory")
    /\ UNCHANGED <<bHasAuthority, ChatSettings, RegisteredComponents, PlayerMessageTimes,
                   clientVars, worldVars, commits, acceptedAt, purged, everSent>>

\* A caller reads the recent history.
GetRecentMessagesCall(Count) ==
    /\ last' = [Quiet("GetRecentMessages")
                  EXCEPT !.count = Count,
                         !.returned = GetRecentMessages(MessageHistory, Count)]
    /\ UNCHANGED <<authVars, clientVars, worldVars, commits, windowStart, acceptedAt,
                   purged, everSent>>

\* The commit of an accepted message, as the observations record it.
Commit ==
    /\ commits < MaxCommits
    /\ commits' = commits + 1

\* The message as committed: it carries its place in the commit order.
Stamped(Message) == [Message EXCEPT !.Id = commits + 1]

BroadcastSystemMessage(Content) ==
    LET SystemMessage == Stamped([FChatMessage(None, Content, "System", now)
                                    EXCEPT !.SenderName = "System"])
        recipients == SendToAllPlayers(SystemMessage, RegisteredComponents)
    IN  IF bHasAuthority
          THEN /\ Commit
               /\ MessageHistory' = AddToHistory(MessageHistory, SystemMessage, ChatSettings)
               /\ last' = Obs("BroadcastSystem", None, SystemMessage, TRUE, NoReason,
                              recipients,
                              EventsOf(recipients, SystemMessage, MutedPlayers), <<>>)
               /\ UNCHANGED <<bHasAuthority, ChatSettings, RegisteredComponents,
                              PlayerMessageTimes, clientVars, worldVars, windowStart,
                              acceptedAt, purged, everSent>>
          ELSE /\ last' = Obs("BroadcastSystem", None, NoMessage, FALSE, NoReason,
                              <<>>, <<>>, <<>>)
               /\ UNCHANGED <<authVars, clientVars, worldVars, commits, windowStart,
                              acceptedAt, purged, everSent>>

\* What a call of BroadcastMessage does to the state; by is the component to notify
\* of a failure, None for a call made by the game's own server code.
Submit(op, by, Message) ==
    LET out == BroadcastMessage(Stamped(Message)) IN
    /\ out.ok => Commit
    /\ ~out.ok => commits' = commits
    /\ MessageHistory' = out.history
    /\ PlayerMessageTimes' = out.times
    /\ acceptedAt' = IF out.ok /\ Message.Sender # None
                       THEN MapAdd(acceptedAt, Message.Sender, now) ELSE acceptedAt
    /\ purged' = IF out.ok /\ Message.Sender # None
                   THEN [purged EXCEPT ![Message.Sender] = FALSE] ELSE purged
    /\ last' = Obs(op, by, IF out.ok THEN Stamped(Message) ELSE Message,
                   out.ok, out.reason, out.recipients,
                   EventsOf(out.recipients, Message, MutedPlayers),
                   IF ~out.ok /\ by # None THEN <<by>> ELSE <<>>)
    /\ UNCHANGED <<bHasAuthority, ChatSettings, RegisteredComponents,
                   clientVars, worldVars, windowStart, everSent>>

\* The game's server code calls BroadcastMessage with a message of its own making.
BroadcastMessageCall(Sender, Content, Channel, WhisperTarget) ==
    Submit("BroadcastMessage", None,
           [FChatMessage(Sender, Content, Channel, now)
              EXCEPT !.WhisperTarget = WhisperTarget])

\* The ServerSendMessage RPC of a component arrives on the server: _Validate, then
\* _Implementation.  A refused RPC is dropped: nothing runs and nothing is notified.
ServerSendMessage(Component, Content, Channel, WhisperTarget) ==
    LET OwningPS == GetOwningPlayerState(Component)
        Message  == [FChatMessage(OwningPS, Content, Channel, now)
                       EXCEPT !.WhisperTarget = WhisperTarget]
    IN  /\ bHasAuthority
        /\ spawned[Component]
        /\ IF ~ServerSendMessage_Validate(Content)
             THEN /\ last' = Obs("ServerSendMessage", Component, Message, FALSE,
                                 Reason("RpcRefused", 0), <<>>, <<>>, <<>>)
                  /\ UNCHANGED <<authVars, clientVars, worldVars, commits, windowStart,
                                 acceptedAt, purged, everSent>>
             ELSE Submit("ServerSendMessage", Component, Message)

\* The body shared by SendChatMessage, SendWhisper and SendProximityMessage once their
\* early returns are passed: the local validation, then either
\* ClientNotifyMessageFailed or the ServerSendMessage RPC, which leaves for the server.
LocalSend(op, Component, Content, Channel, WhisperTarget) ==
    LET v   == ValidateMessageLocally(Content, LastMessageTime[Component], ChatSettings, now)
        msg == [FChatMessage(GetOwningPlayerState(Component), Content, Channel, now)
                  EXCEPT !.WhisperTarget = WhisperTarget]
        rpc == [Content |-> Content, Channel |-> Channel, WhisperTarget |-> WhisperTarget]
    IN  /\ LastMessageTime' = [LastMessageTime EXCEPT ![Component] = v.lastTime]
        /\ last' = [Obs(op, Component, msg, v.ok, v.reason, <<>>, <<>>,
                        IF v.ok THEN <<>> ELSE <<Component>>)
                      EXCEPT !.sent = IF v.ok THEN <<rpc>> ELSE <<>>]
        /\ everSent' = [everSent EXCEPT ![Component] = @ \/ v.ok]
        /\ UNCHANGED <<authVars, MutedPlayers, worldVars, commits, windowStart, acceptedAt,
                       purged>>

\* An early return of a Send function: nothing is validated, notified or sent.
LocalReturn(op, Component, Content, Channel, WhisperTarget) ==
    /\ last' = Obs(op, Component,
                   [FChatMessage(GetOwningPlayerState(Component), Content, Channel, now)
                      EXCEPT !.WhisperTarget = WhisperTarget],
                   FALSE, NoReason, <<>>, <<>>, <<>>)
    /\ UNCHANGED <<authVars, clientVars, worldVars, commits, windowStart, acceptedAt,
                   purged, everSent>>

SendChatMessage(Component, Content, Channel) ==
    /\ spawned[Component]
    /\ IF Content = 0
         THEN LocalReturn("SendChatMessage", Component, Content, Channel, None)
         ELSE LocalSend("SendChatMessage", Component, Content, Channel, None)

SendWhisper(Component, TargetPlayer, Content) ==
    /\ spawned[Component]
    /\ IF TargetPlayer = None \/ Content = 0
         THEN LocalReturn("SendWhisper", Component, Content, "Whisper", TargetPlayer)
         ELSE LocalSend("SendWhisper", Component, Content, "Whisper", TargetPlayer)

SendProximityMessage(Component, Content) ==
    /\ spawned[Component]
    /\ IF Content = 0
         THEN LocalReturn("SendProximityMessage", Component, Content, "Proximity", None)
         ELSE LocalSend("SendProximityMessage", Component, Content, "Proximity", None)

\* MutePlayer without the check against muting oneself.
MutePlayer_AllowsSelf(Component, PlayerToMute) ==
    /\ MutedPlayers' =
          IF PlayerToMute = None
              THEN MutedPlayers
          ELSE IF ~Contains(MutedPlayers[Component], PlayerToMute)
              THEN [MutedPlayers EXCEPT ![Component] = Append(@, PlayerToMute)]
          ELSE MutedPlayers
    /\ last' = [Quiet("Mute") EXCEPT !.by = Component, !.player = PlayerToMute]
    /\ UNCHANGED <<authVars, LastMessageTime, worldVars, commits, windowStart, acceptedAt, purged, everSent>>

\* The mute list of a component.
MutePlayer(Component, PlayerToMute) ==
    /\ MutedPlayers' =
          IF PlayerToMute = None \/ PlayerToMute = GetOwningPlayerState(Component)
              THEN MutedPlayers
          ELSE IF ~Contains(MutedPlayers[Component], PlayerToMute)
              THEN [MutedPlayers EXCEPT ![Component] = Append(@, PlayerToMute)]
          ELSE MutedPlayers
    /\ last' = [Quiet("Mute") EXCEPT !.by = Component, !.player = PlayerToMute]
    /\ UNCHANGED <<authVars, LastMessageTime, worldVars, commits, windowStart, acceptedAt, purged, everSent>>

UnmutePlayer(Component, PlayerToUnmute) ==
    /\ MutedPlayers' =
          IF PlayerToUnmute = None THEN MutedPlayers
          ELSE [MutedPlayers EXCEPT ![Component] = Remove(@, PlayerToUnmute)]
    /\ last' = [Quiet("Unmute") EXCEPT !.by = Component, !.player = PlayerToUnmute]
    /\ UNCHANGED <<authVars, LastMessageTime, worldVars, commits, windowStart, acceptedAt, purged, everSent>>

ClearMutedPlayers(Component) ==
    /\ MutedPlayers' = [MutedPlayers EXCEPT ![Component] = <<>>]
    /\ last' = [Quiet("ClearMutes") EXCEPT !.by = Component]
    /\ UNCHANGED <<authVars, LastMessageTime, worldVars, commits, windowStart, acceptedAt, purged, everSent>>

\* A pawn is destroyed or unpossessed.
ClearPawn(Player) ==
    /\ Player \in DOMAIN pawn
    /\ pawn' = MapRemove(pawn, Player)
    /\ last' = Quiet("ClearPawn")
    /\ UNCHANGED <<authVars, clientVars, now, spawned, commits, windowStart, acceptedAt,
                   purged, everSent>>

(***************************************************************************)
(* Specifications.  Each one runs the same operations on its own workload: *)
(* the settings the authority may be given, the players that act and the   *)
(* submissions they make.                                                  *)
(***************************************************************************)
NoPawns  == {EmptyMap}

\* Rate limiting and the life cycle of components: two senders, contents around the
\* configured length, cooldowns of one and three ticks.
RateSenders  == {"p1", "p2"}
RateSettings == {FChatSettings(len, cd, 1, 1, FALSE) : len \in {1, 2}, cd \in {1, 3}}

InitRate == InitWith(RateSettings, NoPawns)

NextRate ==
    \/ Tick
    \/ \E c \in RateSenders : RegisterChatComponent(c)
    \/ \E c \in RateSenders : UnregisterChatComponent(c)
    \/ \E st \in RateSettings : SetChatSettings(st)
    \/ \E c \in RateSenders, n \in {1, 2} : ServerSendMessage(c, n, "Global", None)

SpecRate == InitRate /\ [][NextRate]_vars

\* Validation: one sender, every combination of empty, short, long and oversized
\* content, present and absent sender and whisper target, on three channels; a
\* cooldown of two ticks, and no history kept.
ValidateSettings == {FChatSettings(len, 2, 0, 1, allow) : len \in {1, 2}, allow \in BOOLEAN}
ValidateChannels == {"Global", "Whisper", "System"}

InitValidate == InitWith(ValidateSettings, NoPawns)

NextValidate ==
    \/ Tick
    \/ RegisterChatComponent("p1")
    \/ \E st \in ValidateSettings : SetChatSettings(st)
    \/ \E snd \in {"p1", None}, n \in {0, 1, 2}, ch \in ValidateChannels,
          tgt \in {"p2", None} : BroadcastMessageCall(snd, n, ch, tgt)
    \/ \E n \in {0, 1, 2, HardCap + 1}, ch \in ValidateChannels, tgt \in {"p2", None} :
          ServerSendMessage("p1", n, ch, tgt)

SpecValidate == InitValidate /\ [][NextValidate]_vars

\* History: two senders and the system fill a history of zero to two messages, which
\* the authority resizes and clears; no cooldown.
HistorySenders  == {"p1", "p2"}
HistorySettings == {FChatSettings(1, 0, hist, 1, FALSE) : hist \in {0, 1, 2}}

InitHistory == InitWith(HistorySettings, NoPawns)

NextHistory ==
    \/ \E c \in HistorySenders : RegisterChatComponent(c)
    \/ \E st \in HistorySettings : SetChatSettings(st)
    \/ ClearMessageHistory
    \/ \E n \in {0, 1} : BroadcastSystemMessage(n)
    \/ \E c \in HistorySenders : ServerSendMessage(c, 1, "Global", None)

SpecHistory == InitHistory /\ [][NextHistory]_vars

\* Whispers: three players come and go and whisper to one another and to
\* themselves; no cooldown, no history kept.
WhisperSettings == {FChatSettings(1, 0, 0, 1, FALSE)}

InitWhisper == InitWith(WhisperSettings, NoPawns)

NextWhisper ==
    \/ \E c \in Players : RegisterChatComponent(c)
    \/ \E c \in Players : UnregisterChatComponent(c)
    \/ \E c \in Players, tgt \in Players : ServerSendMessage(c, 1, "Whisper", tgt)

SpecWhisper == InitWhisper /\ [][NextWhisper]_vars

\* Proximity chat: pawns appear, move along a line and disappear, components
\* register, the radius is reconfigured, and p1 speaks on the Proximity channel.
Locations == 0..MaxCoord

ProximitySettings == {FChatSettings(1, 0, 0, radius, FALSE) : radius \in {1, 2}}

InitProximity == InitWith(ProximitySettings, NoPawns)

NextProximity ==
    \/ \E c \in Players : RegisterChatComponent(c)
    \/ \E p \in Players, l \in Locations : SetPawn(p, l)
    \/ \E p \in Players : ClearPawn(p)
    \/ \E s \in ProximitySettings : SetChatSettings(s)
    \/ ServerSendMessage("p1", 1, "Proximity", None)

SpecProximity == InitProximity /\ [][NextProximity]_vars

\* Muting: p2 and p3 mute, unmute and clear; p1 and p2 speak on the Global
\* channel and the server broadcasts system messages; one message of history.
MuteSenders == {"p1", "p2"}

Muters == {"p2", "p3"}

MuteSettings == {FChatSettings(1, 0, 1, 1, FALSE)}

InitMute == InitWith(MuteSettings, NoPawns)

NextMute ==
    \/ \E c \in Players : RegisterChatComponent(c)
    \/ \E c \in Muters, p \in MuteSenders \cup {None} : MutePlayer(c, p)
    \/ \E c \in Muters, p \in MuteSenders \cup {None} : UnmutePlayer(c, p)
    \/ \E c \in Muters : ClearMutedPlayers(c)
    \/ BroadcastSystemMessage(1)
    \/ \E c \in MuteSenders : ServerSendMessage(c, 1, "Global", None)

SpecMute == InitMute /\ [][NextMute]_vars

\* The privileged operations, called on an authority and on a non-authority instance
\* with two components registered: settings of two lengths, one message of history.
AuthoritySenders  == {"p1", "p2"}
AuthoritySettings == {FChatSettings(len, 0, 1, 1, FALSE) : len \in {1, 2}}

InitAuthority == InitWith(AuthoritySettings, NoPawns)

NextAuthority ==
    \/ \E c \in AuthoritySenders : RegisterChatComponent(c)
    \/ \E st \in AuthoritySettings : SetChatSettings(st)
    \/ ClearMessageHistory
    \/ \E n \in {1, 2} : BroadcastSystemMessage(n)
    \/ \E snd \in AuthoritySenders, n \in {1, 2} : BroadcastMessageCall(snd, n, "Global", None)

SpecAuthority == InitAuthority /\ [][NextAuthority]_vars

\* The hard cap of the RPC: contents at and around 1024 characters, under a configured
\* length below and above the cap.
CapSenders  == {"p1", "p2"}
CapSettings == {FChatSettings(len, 0, 1, 1, FALSE) : len \in {1, HardCap + 2}}
CapContents == {1, HardCap, HardCap + 1, HardCap + 3}

InitCap == InitWith(CapSettings, NoPawns)

NextCap ==
    \/ \E c \in CapSenders : RegisterChatComponent(c)
    \/ \E st \in CapSettings : SetChatSettings(st)
    \/ \E c \in CapSenders, n \in CapContents : ServerSendMessage(c, n, "Global", None)

SpecCap == InitCap /\ [][NextCap]_vars

\* The sending side of a component: empty, short and over-long contents, with and
\* without a whisper target, under a cooldown of two ticks.
ClientSenders  == {"p1", "p2"}
ClientSettings == {FChatSettings(1, 2, 1, 1, FALSE)}

InitClient == InitWith(ClientSettings, NoPawns)

NextClient ==
    \/ Tick
    \/ \E c \in ClientSenders : RegisterChatComponent(c)
    \/ \E c \in ClientSenders, n \in {0, 1, 2} : SendChatMessage(c, n, "Global")
    \/ \E c \in ClientSenders, n \in {0, 1, 2}, tgt \in {"p3", None} : SendWhisper(c, tgt, n)
    \/ \E c \in ClientSenders, n \in {0, 1, 2} : SendProximityMessage(c, n)

SpecClient == InitClient /\ [][NextClient]_vars

\* System messages: the server broadcasts empty, short and over-long contents while
\* two players come, go and speak under a cooldown of two ticks.
SystemSenders  == {"p1", "p2"}
SystemSettings == {FChatSettings(1, 2, 2, 1, FALSE)}

InitSystem == InitWith(SystemSettings, NoPawns)

NextSystem ==
    \/ Tick
    \/ \E c \in SystemSenders : RegisterChatComponent(c)
    \/ \E c \in SystemSenders : UnregisterChatComponent(c)
    \/ \E n \in {0, 1, 2} : BroadcastSystemMessage(n)
    \/ ServerSendMessage("p1", 1, "Global", None)

SpecSystem == InitSystem /\ [][NextSystem]_vars

\* Broadcast channels: three players come and go, two of them have pawns out of each
\* other's radius at times, and speak on the Global, Team, Custom and System channels
\* with and without a whisper target; no cooldown, no history kept.
RouteSenders  == {"p1", "p2"}
RouteChannels == {"Global", "Team", "Custom", "System"}
RouteSettings == {FChatSettings(1, 0, 0, 1, FALSE)}

InitRoute == InitWith(RouteSettings, NoPawns)

NextRoute ==
    \/ \E c \in Players : RegisterChatComponent(c)
    \/ \E c \in Players : UnregisterChatComponent(c)
    \/ SetPawn("p1", 0)
    \/ SetPawn("p2", MaxCoord)
    \/ \E p \in RouteSenders : ClearPawn(p)
    \/ \E c \in RouteSenders, ch \in RouteChannels, tgt \in {"p3", None} :
          ServerSendMessage(c, 1, ch, tgt)

SpecRoute == InitRoute /\ [][NextRoute]_vars

\* Reading the history: p1 and the system fill a history that holds every commit of
\* the run, the authority clears it, and callers ask for negative, zero, smaller,
\* equal and larger counts.
RecentSettings == {FChatSettings(1, 0, MaxCommits, 1, FALSE)}
RecentCounts   == -1 .. MaxCommits + 1

InitRecent == InitWith(RecentSettings, NoPawns)

NextRecent ==
    \/ RegisterChatComponent("p1")
    \/ BroadcastSystemMessage(1)
    \/ ServerSendMessage("p1", 1, "Global", None)
    \/ ClearMessageHistory
    \/ \E k \in RecentCounts : GetRecentMessagesCall(k)

SpecRecent == InitRecent /\ [][NextRecent]_vars

\* Interleaved callers: two senders submit at the same and at different times, under
\* no cooldown and a cooldown of one tick, while the server broadcasts, reconfigures
\* and components come and go; two messages of history.
InterleaveSenders  == {"p1", "p2"}
InterleaveSettings == {FChatSettings(1, cd, 2, 1, FALSE) : cd \in {0, 1}}

InitInterleave == InitWith(InterleaveSettings, NoPawns)

NextInterleave ==
    \/ Tick
    \/ \E c \in InterleaveSenders : RegisterChatComponent(c)
    \/ \E c \in InterleaveSenders : UnregisterChatComponent(c)
    \/ \E st \in InterleaveSettings : SetChatSettings(st)
    \/ BroadcastSystemMessage(1)
    \/ \E c \in InterleaveSenders : ServerSendMessage(c, 1, "Global", None)

SpecInterleave == InitInterleave /\ [][NextInterleave]_vars

\* Leaving and rejoining: three components register and unregister; the pawns stand
\* in a row, p2 within the radius of p1 and of p3, which are out of each other's; p1
\* and p2 speak on the Global, Team, Whisper and Proximity channels with p3 as whisper
\* target, and the server broadcasts system messages; no cooldown, no history kept.
LeaveSenders  == {"p1", "p2"}
LeaveChannels == {"Global", "Team", "Whisper", "Proximity"}
LeaveSettings == {FChatSettings(1, 0, 0, 1, FALSE)}
LeavePawns    == {MapAdd(MapAdd(MapAdd(EmptyMap, "p1", 0), "p2", 1), "p3", MaxCoord)}

InitLeave == InitWith(LeaveSettings, LeavePawns)

NextLeave ==
    \/ \E c \in Players : RegisterChatComponent(c)
    \/ \E c \in Players : UnregisterChatComponent(c)
    \/ BroadcastSystemMessage(1)
    \/ \E c \in LeaveSenders, ch \in LeaveChannels : ServerSendMessage(c, 1, ch, "p3")

SpecLeave == InitLeave /\ [][NextLeave]_vars

(***************************************************************************)
(* Claims.                                                                 *)
(***************************************************************************)
SubmitOps == {"ServerSendMessage", "BroadcastMessage"}

\* A submission that reaches the rate-limit check: it passed the RPC's own validation
\* and ValidateMessage on an authority.
ReachesRateLimit(o, Settings) ==
    /\ o.op \in SubmitOps
    /\ bHasAuthority
    /\ o.reason.kind # "RpcRefused"
    /\ ValidateMessage(o.msg, Settings).ok
    /\ o.msg.Sender # None

\* C1: within one registration of its component, a sender whose last submission was
\* accepted at time t and who submits an otherwise valid message at time t + D is
\* rejected with the rate-limit reason carrying MessageCooldown - D when
\* D < MessageCooldown, and accepted when D >= MessageCooldown; the rejection leaves
\* PlayerMessageTimes as it was.
C1_Cooldown ==
    [][ \A s \in Players :
          (/\ ReachesRateLimit(last', ChatSettings)
           /\ last'.msg.Sender = s
           /\ s \in DOMAIN acceptedAt
           /\ ~purged[s])
          => LET D == now - acceptedAt[s] IN
             IF D < ChatSettings.MessageCooldown
               THEN /\ ~last'.ok
                    /\ last'.reason = Reason("RateLimited", ChatSettings.MessageCooldown - D)
                    /\ PlayerMessageTimes' = PlayerMessageTimes
                    /\ acceptedAt' = acceptedAt
               ELSE /\ last'.ok
                    /\ PlayerMessageTimes'[s] = now
       ]_vars

\* C1 witness: with a cooldown of 3 ticks, a submission one tick after the sender's
\* accepted one has been rejected with 2 ticks remaining.
C1_Witness ==
    /\ last.op = "ServerSendMessage"
    /\ ~last.ok
    /\ ChatSettings.MessageCooldown = 3
    /\ last.reason = Reason("RateLimited", 2)
    /\ last.msg.Sender \in DOMAIN acceptedAt
    /\ now - acceptedAt[last.msg.Sender] = 1
    /\ ~purged[last.msg.Sender]

\* C9 as claimed: every message committed through ServerSendMessage is no longer than
\* MaxMessageLength, and no sender has two committed submissions closer together than
\* the MessageCooldown in force at the second.
C9_NeverWithinCooldown ==
    [][ (last'.op = "ServerSendMessage" /\ last'.ok)
        => /\ last'.msg.Content <= ChatSettings.MaxMessageLength
           /\ last'.msg.Sender \in DOMAIN acceptedAt
                => now - acceptedAt[last'.msg.Sender] >= ChatSettings.MessageCooldown
       ]_vars

\* C9 amended: every message committed through ServerSendMessage is no longer than
\* MaxMessageLength, and no sender has two committed submissions closer together than
\* the MessageCooldown in force at the second unless its component was unregistered
\* between the two.
C9_LimitsHold ==
    [][ (last'.op = "ServerSendMessage" /\ last'.ok)
        => /\ last'.msg.Content <= ChatSettings.MaxMessageLength
           /\ (last'.msg.Sender \in DOMAIN acceptedAt /\ ~purged[last'.msg.Sender])
                => now - acceptedAt[last'.msg.Sender] >= ChatSettings.MessageCooldown
       ]_vars

\* C9 witness: a sender's second submission has been committed, a whole cooldown of
\* 3 ticks after its first, its component registered throughout.
C9_Witness ==
    /\ last.op = "ServerSendMessage"
    /\ last.ok
    /\ commits = 2
    /\ DOMAIN acceptedAt = {last.msg.Sender}
    /\ ChatSettings.MessageCooldown = 3
    /\ now = 3
    /\ last.msg.Content = ChatSettings.MaxMessageLength
    /\ Contains(RegisteredComponents, last.msg.Sender)

\* C10 as claimed: every player with an entry in PlayerMessageTimes has a registered
\* component.
C10_NoOrphanRateLimit ==
    \A p \in DOMAIN PlayerMessageTimes :
        GetChatComponentForPlayer(p, RegisteredComponents) # None

\* The reason the claimed order of checks gives: the first of the four that fails.
C2_FirstFailure(m, Settings) ==
    LET empty   == m.Content = 0 /\ ~Settings.bAllowEmptyMessages
        tooLong == m.Content > Settings.MaxMessageLength
        noSender == m.Channel # "System" /\ m.Sender = None
        noTarget == m.Channel = "Whisper" /\ m.WhisperTarget = None
    IN  CASE empty -> Reason("Empty", 0)
          [] ~empty /\ tooLong -> Reason("TooLong", Settings.MaxMessageLength)
          [] ~empty /\ ~tooLong /\ noSender -> Reason("InvalidSender", 0)
          [] ~empty /\ ~tooLong /\ ~noSender /\ noTarget -> Reason("NoWhisperTarget", 0)
          [] OTHER -> NoReason

\* C2: on the authority, a call of BroadcastMessage is rejected with the reason of the
\* first failing check in the order empty, too long (naming MaxMessageLength), invalid
\* sender, whisper without target, and then leaves PlayerMessageTimes and the history
\* untouched; only a message that passes all four is decided by the rate limiter.
C2_CheckOrder ==
    [][ (last'.op \in SubmitOps /\ bHasAuthority /\ last'.reason.kind # "RpcRefused")
        => LET e == C2_FirstFailure(last'.msg, ChatSettings) IN
           IF e # NoReason
             THEN /\ ~last'.ok
                  /\ last'.reason = e
                  /\ PlayerMessageTimes' = PlayerMessageTimes
                  /\ MessageHistory' = MessageHistory
                  /\ commits' = commits
             ELSE /\ last'.reason.kind \in {"None", "RateLimited"}
                  /\ last'.ok = (last'.reason.kind = "None")
                  /\ last'.reason.kind = "RateLimited"
                       => /\ last'.msg.Sender \in DOMAIN PlayerMessageTimes
                          /\ now - PlayerMessageTimes[last'.msg.Sender]
                               < ChatSettings.MessageCooldown
       ]_vars

\* C2 witness: a whisper with over-long content and no target, from a sender still in
\* cooldown, has been rejected as too long.
C2_Witness ==
    /\ last.op = "ServerSendMessage"
    /\ last.msg.Channel = "Whisper"
    /\ last.msg.WhisperTarget = None
    /\ last.msg.Content > ChatSettings.MaxMessageLength
    /\ last.msg.Sender \in DOMAIN PlayerMessageTimes
    /\ now - PlayerMessageTimes[last.msg.Sender] < ChatSettings.MessageCooldown
    /\ last.reason = Reason("TooLong", ChatSettings.MaxMessageLength)
    /\ last.notified = <<last.by>>

\* C3 as claimed: a whisper submission with no target is rejected with the
\* missing-target reason whatever its content and the settings, and the submitting
\* client is notified of that reason.
C3_AlwaysMissingTarget ==
    (/\ last.op = "ServerSendMessage"
     /\ last.msg.Channel = "Whisper"
     /\ last.msg.WhisperTarget = None)
    => /\ ~last.ok
       /\ last.reason = Reason("NoWhisperTarget", 0)
       /\ last.notified = <<last.by>>

\* C3 amended: a whisper submission with no target is never accepted; when its
\* content is non-empty and within both the hard cap and MaxMessageLength it is rejected
\* with the missing-target reason, and when it is within the hard cap but longer than
\* MaxMessageLength with the too-long reason, the submitting client being notified of
\* the reason in both cases; empty or oversized content is refused with the RPC and no
\* reason is sent.
C3_NoTargetRejected ==
    (/\ last.op = "ServerSendMessage"
     /\ last.msg.Channel = "Whisper"
     /\ last.msg.WhisperTarget = None)
    => /\ ~last.ok
       /\ last.recipients = <<>>
       /\ IF last.msg.Content = 0 \/ last.msg.Content > HardCap
            THEN last.reason.kind = "RpcRefused" /\ last.notified = <<>>
          ELSE IF last.msg.Content > ChatSettings.MaxMessageLength
            THEN /\ last.reason = Reason("TooLong", ChatSettings.MaxMessageLength)
                 /\ last.notified = <<last.by>>
          ELSE /\ last.reason = Reason("NoWhisperTarget", 0)
               /\ last.notified = <<last.by>>

\* C3 witness: a whisper with acceptable content and no target has been rejected with
\* the missing-target reason and its sender notified.
C3_Witness ==
    /\ last.op = "ServerSendMessage"
    /\ last.msg.Channel = "Whisper"
    /\ last.msg.WhisperTarget = None
    /\ last.msg.Content = 1
    /\ ~last.ok
    /\ last.reason = Reason("NoWhisperTarget", 0)
    /\ last.notified = <<last.by>>

\* The ids of the last n committed messages, oldest first.
LastCommitted(n) == [i \in 1..n |-> commits - n + i]
IdsOf(History)   == [i \in 1..Len(History) |-> History[i].Id]

\* C4: the history is always the most recent stretch of the commit sequence, in commit
\* order; and once more than MaxHistorySize messages have been committed since the
\* history was last cleared or resized, GetRecentMessages(0) is exactly the last
\* MaxHistorySize committed messages, oldest first.
C4_RecentSuffix ==
    /\ IdsOf(MessageHistory) = LastCommitted(Len(MessageHistory))
    /\ commits - windowStart > ChatSettings.MaxHistorySize
         => IdsOf(GetRecentMessages(MessageHistory, 0))
              = LastCommitted(ChatSettings.MaxHistorySize)

\* C4 witness: three commits into a history of two, the last a system message after
\* a player's; the history holds the second and the third.
C4_Witness ==
    /\ ChatSettings.MaxHistorySize = 2
    /\ windowStart = 0
    /\ commits = 3
    /\ last.op = "BroadcastSystem"
    /\ Len(GetRecentMessages(MessageHistory, 0)) = 2
    /\ MessageHistory[1].Id = 2
    /\ MessageHistory[1].Sender = "p2"
    /\ MessageHistory[2].Id = 3
    /\ MessageHistory[2].Channel = "System"

\* C5 as claimed: the history never holds more than MaxHistorySize messages.
C5_HistoryBounded ==
    Len(MessageHistory) <= ChatSettings.MaxHistorySize

\* The players that own a registered component.
Registered == {GetOwner(c) : c \in Range(RegisteredComponents)}

\* C6 as claimed: an accepted whisper is delivered to exactly its sender and its
\* target.
C6_ExactlySenderAndTarget ==
    (last.op \in SubmitOps /\ last.ok /\ last.msg.Channel = "Whisper")
    => Range(last.recipients) = {last.msg.Sender, last.msg.WhisperTarget}

\* C6 amended: an accepted whisper is delivered to exactly those of its sender and its
\* target that own a registered component, and to nobody else, however many
\* components are registered.
C6_SenderAndTargetIfRegistered ==
    (last.op \in SubmitOps /\ last.ok /\ last.msg.Channel = "Whisper")
    => Range(last.recipients)
         = {last.msg.Sender, last.msg.WhisperTarget} \cap Registered

\* C6 witness: with three components registered, a whisper from one player to another
\* has reached those two and not the third.
C6_Witness ==
    /\ last.op = "ServerSendMessage"
    /\ last.ok
    /\ last.msg.Channel = "Whisper"
    /\ last.msg.Sender = "p1"
    /\ last.msg.WhisperTarget = "p2"
    /\ Registered = Players
    /\ Range(last.recipients) = {"p1", "p2"}

\* The registered players whose pawn stands within the radius of the pawn at Origin,
\* boundary included.
WithinRadius(Origin) ==
    {p \in Registered :
        /\ p \in DOMAIN pawn
        /\ (pawn[p] - Origin) * (pawn[p] - Origin)
             <= ChatSettings.ProximityChatRadius * ChatSettings.ProximityChatRadius}

\* C7: an accepted Proximity message is delivered to exactly the registered players
\* whose pawn is within the proximity radius of the sender's pawn, boundary included;
\* a player without a pawn never receives it; a sender without a pawn reaches nobody.
C7_ProximityExact ==
    (last.op \in SubmitOps /\ last.ok /\ last.msg.Channel = "Proximity")
    => /\ last.msg.Sender \in DOMAIN pawn
            => Range(last.recipients) = WithinRadius(pawn[last.msg.Sender])
       /\ last.msg.Sender \notin DOMAIN pawn => last.recipients = <<>>
       /\ \A p \in Range(last.recipients) : p \in DOMAIN pawn

\* C7 witness: with radius 1 and all three registered, the sender at 0 reaches itself
\* and the player standing exactly at distance 1, not the player at distance 2.
C7_Witness ==
    /\ last.op = "ServerSendMessage"
    /\ last.ok
    /\ last.msg.Channel = "Proximity"
    /\ ChatSettings.ProximityChatRadius = 1
    /\ Registered = Players
    /\ DOMAIN pawn = Players
    /\ pawn["p1"] = 0
    /\ pawn["p2"] = 1
    /\ pawn["p3"] = 2
    /\ Range(last.recipients) = {"p1", "p2"}

\* The last step was an accepted message of a player or of the system.
Accepted(o) == o.op \in SubmitOps \cup {"BroadcastSystem"} /\ o.ok

C11_UnregisterPurgesRegisterIdempotent ==
    [][ /\ (last'.op = "Unregister" /\ RegisteredComponents' = RegisteredComponents)
            => authVars' = authVars
        /\ (last'.op = "Register" /\ RegisteredComponents' = RegisteredComponents)
            => authVars' = authVars
        /\ last'.op = "Unregister"
            => /\ Len(RegisteredComponents') >= Len(RegisteredComponents) - 1
               /\ DOMAIN PlayerMessageTimes' \subseteq DOMAIN PlayerMessageTimes
        /\ (ReachesRateLimit(last', ChatSettings) /\ purged[last'.msg.Sender])
            => last'.ok
      ]_vars

PrivilegedOps == {"BroadcastMessage", "BroadcastSystem", "SetSettings", "ClearHistory"}

C13_HardCapFirst ==
    [][ (last'.op = "ServerSendMessage" /\ last'.msg.Content > HardCap)
        => /\ ~last'.ok
           /\ last'.reason = Reason("RpcRefused", 0)
           /\ authVars' = authVars
           /\ commits' = commits
           /\ last'.recipients = <<>>
           /\ last'.events = <<>>
      ]_vars

\* C13 witness: with MaxMessageLength above the cap, a registered sender whose message
\* of 1024 characters is in the history had one of 1025 characters refused at the RPC.
C13_Witness ==
    /\ ChatSettings.MaxMessageLength > HardCap + 1
    /\ last.op = "ServerSendMessage"
    /\ last.msg.Content = HardCap + 1
    /\ Contains(RegisteredComponents, last.by)
    /\ last.reason = Reason("RpcRefused", 0)
    /\ Len(MessageHistory) = 1
    /\ MessageHistory[1].Content = HardCap
    /\ MessageHistory[1].Sender = last.by

\* C14 as claimed: while bAllowEmptyMessages is set, a ServerSendMessage with empty
\* content from a registered component, on a channel other than Whisper and outside the
\* sender's cooldown, is accepted, committed and delivered.
C14_EmptyAcceptedWhenAllowed ==
    [][ (/\ last'.op = "ServerSendMessage"
         /\ last'.msg.Content = 0
         /\ ChatSettings.bAllowEmptyMessages
         /\ Contains(RegisteredComponents, last'.by)
         /\ last'.msg.Channel # "Whisper"
         /\ \/ last'.msg.Sender \notin DOMAIN PlayerMessageTimes
            \/ now - PlayerMessageTimes[last'.msg.Sender] >= ChatSettings.MessageCooldown)
        => /\ last'.ok
           /\ commits' = commits + 1
           /\ Contains(last'.recipients, last'.by)
      ]_vars

SendOps == {"SendChatMessage", "SendWhisper", "SendProximityMessage"}

\* The local precheck as the claim lists it: it fails on empty content, on content
\* longer than MaxMessageLength and while the local cooldown has not elapsed.
PrecheckFails(Component, Content) ==
    \/ Content = 0
    \/ Content > ChatSettings.MaxMessageLength
    \/ now - LastMessageTime[Component] < ChatSettings.MessageCooldown

\* C15 as claimed: a call of SendChatMessage, SendWhisper or SendProximityMessage whose
\* local precheck fails notifies its own component of the failure exactly once and
\* sends nothing; one whose precheck passes sends exactly one ServerSendMessage and
\* notifies nothing.
C15_OneNotificationOrOneSubmission ==
    [][ last'.op \in SendOps
        => IF PrecheckFails(last'.by, last'.msg.Content)
             THEN last'.notified = <<last'.by>> /\ last'.sent = <<>>
             ELSE Len(last'.sent) = 1 /\ last'.notified = <<>>
      ]_vars

\* C16 as claimed: every submission that ServerSendMessage_Implementation processes
\* ends in exactly one outcome at the submitting component: when rejected, one failure
\* notification and no delivery; when accepted, a delivery of the message to the
\* submitter and no failure notification.
C16_ExactlyOneOutcome ==
    (last.op = "ServerSendMessage" /\ last.reason.kind # "RpcRefused")
    => IF last.ok
         THEN Contains(last.recipients, last.by) /\ last.notified = <<>>
         ELSE last.notified = <<last.by>> /\ ~Contains(last.recipients, last.by)

RejectionKinds == {"Empty", "TooLong", "InvalidSender", "NoWhisperTarget", "RateLimited"}

\* C17: a submission that BroadcastMessage rejects, by validation or by the rate limit,
\* leaves the history, the rate limiter, the settings and the registered components
\* unchanged, is delivered to no component, and its reason goes to the submitting
\* component and to no other.
C17_RejectionHasNoEffect ==
    [][ (/\ last'.op \in SubmitOps
         /\ ~last'.ok
         /\ last'.reason.kind \in RejectionKinds)
        => /\ authVars' = authVars
           /\ commits' = commits
           /\ last'.recipients = <<>>
           /\ last'.events = <<>>
           /\ Range(last'.notified) \subseteq {last'.by}
           /\ last'.op = "ServerSendMessage" => last'.notified = <<last'.by>>
      ]_vars

\* C17 witness: with both components registered and a message in the history, p1 was
\* refused by the rate limit one tick after its accepted message; only p1 was notified.
C17_Witness ==
    /\ last.op = "ServerSendMessage"
    /\ last.by = "p1"
    /\ ~last.ok
    /\ last.reason.kind = "RateLimited"
    /\ Registered = RateSenders
    /\ MessageHistory # <<>>
    /\ "p1" \in DOMAIN PlayerMessageTimes
    /\ PlayerMessageTimes["p1"] = now - 1
    /\ last.notified = <<"p1">>

\* C18: on the authority every BroadcastSystemMessage call commits, whatever the
\* content and the time: the history gains at its tail one message with no sender, the
\* sender name "System" and the System channel, ClientReceiveMessage is called on every
\* registered component, and the rate limiter is neither consulted nor changed.
C18_SystemAlwaysCommits ==
    [][ (bHasAuthority /\ last'.op = "BroadcastSystem")
        => /\ last'.ok
           /\ commits' = commits + 1
           /\ last'.msg.Sender = None
           /\ last'.msg.SenderName = "System"
           /\ last'.msg.Channel = "System"
           /\ MessageHistory' # <<>>
           /\ MessageHistory'[Len(MessageHistory')] = last'.msg
           /\ Len(MessageHistory) < ChatSettings.MaxHistorySize
                => MessageHistory' = Append(MessageHistory, last'.msg)
           /\ last'.recipients = RegisteredComponents
           /\ last'.notified = <<>>
           /\ PlayerMessageTimes' = PlayerMessageTimes
           /\ UNCHANGED <<RegisteredComponents, ChatSettings>>
      ]_vars

\* C18 witness: while p1 is inside its cooldown, an empty and then an over-long system
\* message were committed and the second was delivered to both registered components.
C18_Witness ==
    /\ last.op = "BroadcastSystem"
    /\ last.ok
    /\ last.msg.Content = 2
    /\ last.msg.Content > ChatSettings.MaxMessageLength
    /\ Len(MessageHistory) = 2
    /\ MessageHistory[1].Channel = "System"
    /\ MessageHistory[1].Content = 0
    /\ MessageHistory[2] = last.msg
    /\ "p1" \in DOMAIN PlayerMessageTimes
    /\ now - PlayerMessageTimes["p1"] < ChatSettings.MessageCooldown
    /\ Registered = SystemSenders
    /\ Range(last.recipients) = SystemSenders

\* C19: an accepted message on the Global, System, Custom or Team channel is delivered
\* to every component registered when it is committed, once each, whatever the pawns
\* and the whisper target.
C19_BroadcastReachesAll ==
    (/\ last.op \in SubmitOps \cup {"BroadcastSystem"}
     /\ last.ok
     /\ last.msg.Channel \in {"Global", "System", "Custom", "Team"})
    => /\ Range(last.recipients) = Registered
       /\ Len(last.recipients) = Cardinality(Registered)

\* C19 witness: a Team message of p1 carrying a whisper target, with p2's pawn out of
\* p1's radius and all three components registered, was delivered to all three.
C19_Witness ==
    /\ last.op = "ServerSendMessage"
    /\ last.ok
    /\ last.msg.Channel = "Team"
    /\ last.msg.Sender = "p1"
    /\ last.msg.WhisperTarget = "p3"
    /\ DOMAIN pawn = RouteSenders
    /\ ~InProximity(pawn["p1"], pawn["p2"], ChatSettings)
    /\ Registered = Players
    /\ Range(last.recipients) = Players

\* C20: GetRecentMessages(Count) returns the last min(Count, size) messages of the
\* history, oldest first, and the whole history when Count <= 0 or Count >= size; the
\* call changes neither the history nor anything else on the authority.
C20_RecentMessages ==
    [][ last'.op = "GetRecentMessages"
        => LET size == Len(MessageHistory)
               c    == last'.count
               k    == IF c <= 0 \/ c >= size THEN size ELSE c
           IN  /\ Len(last'.returned) = k
               /\ \A i \in 1..k : last'.returned[i] = MessageHistory[size - k + i]
               /\ c > 0 => k = (IF c < size THEN c ELSE size)
               /\ (c <= 0 \/ c >= size) => last'.returned = MessageHistory
               /\ authVars' = authVars
      ]_vars

\* C20 witness: with three messages in the history, a call with Count = 2 returned the
\* second and the third, in that order.
C20_Witness ==
    /\ last.op = "GetRecentMessages"
    /\ last.count = 2
    /\ Len(MessageHistory) = 3
    /\ last.returned = <<MessageHistory[2], MessageHistory[3]>>
    /\ last.returned[1].Id = 2
    /\ last.returned[2].Id = 3

\* Whether a TArray holds no element twice.
NoDuplicates(arr) == \A i, j \in 1..Len(arr) : arr[i] = arr[j] => i = j

\* C21: no component ever has its own owner in its mute list (MutePlayer of oneself
\* changes nothing), no mute list holds a player twice, IsPlayerMuted(x) becomes true
\* only by MutePlayer(x) and false only by UnmutePlayer(x) or ClearMutedPlayers of
\* that component, each of which has that effect, and a component to which its own
\* message is delivered always raises the event for it.
C21_MuteListInvariants ==
    [][ /\ \A c \in Players :
             /\ ~Contains(MutedPlayers'[c], GetOwningPlayerState(c))
             /\ NoDuplicates(MutedPlayers'[c])
        /\ (last'.op = "Mute" /\ last'.player \in {None, GetOwningPlayerState(last'.by)})
             => MutedPlayers' = MutedPlayers
        /\ (last'.op = "Mute" /\ last'.player \notin {None, GetOwningPlayerState(last'.by)})
             => IsPlayerMuted(MutedPlayers'[last'.by], last'.player)
        /\ (last'.op = "Unmute" /\ last'.player # None)
             => ~IsPlayerMuted(MutedPlayers'[last'.by], last'.player)
        /\ last'.op = "ClearMutes"
             => \A x \in Players : ~IsPlayerMuted(MutedPlayers'[last'.by], x)
        /\ \A c, x \in Players :
             /\ (~IsPlayerMuted(MutedPlayers[c], x) /\ IsPlayerMuted(MutedPlayers'[c], x))
                  => last'.op = "Mute" /\ last'.by = c /\ last'.player = x
             /\ (IsPlayerMuted(MutedPlayers[c], x) /\ ~IsPlayerMuted(MutedPlayers'[c], x))
                  => \/ last'.op = "Unmute" /\ last'.by = c /\ last'.player = x
                     \/ last'.op = "ClearMutes" /\ last'.by = c
        /\ (Accepted(last') /\ Contains(last'.recipients, last'.msg.Sender))
             => Contains(last'.events, last'.msg.Sender)
      ]_vars

\* C21 witness: p2, which had muted p1, called MutePlayer on itself; its mute list
\* still holds p1 only, and p2's own message had raised its event before.
C21_Witness ==
    /\ last.op = "Mute"
    /\ last.by = "p2"
    /\ last.player = "p2"
    /\ MutedPlayers["p2"] = <<"p1">>
    /\ MessageHistory # <<>>
    /\ MessageHistory[1].Sender = "p2"

\* Whether History is what remains of Appended after removing messages at its head.
IsTailOf(History, Appended) ==
    /\ Len(History) <= Len(Appended)
    /\ \A i \in 1..Len(History) :
          History[i] = Appended[Len(Appended) - Len(History) + i]

C23_SystemMessagesAreTheServers ==
    (Accepted(last) /\ last.msg.Channel = "System")
    => last.msg.Sender = None /\ last.msg.SenderName = "System"

\* C24 as claimed: ClientReceiveMessage is called at most once per component for an
\* accepted message.
C24_DeliveredAtMostOnce ==
    Accepted(last) => NoDuplicates(last.recipients)

\* C25 as claimed: the first Send call of a component with a non-empty content within
\* MaxMessageLength (and, for a whisper, a target) passes the local validation and
\* issues one ServerSendMessage, whatever the time.
C25_FirstSendPasses ==
    [][ (/\ last'.op \in SendOps
         /\ ~everSent[last'.by]
         /\ last'.msg.Content # 0
         /\ last'.msg.Content <= ChatSettings.MaxMessageLength
         /\ last'.op = "SendWhisper" => last'.msg.WhisperTarget # None)
        => last'.ok /\ Len(last'.sent) = 1 /\ last'.notified = <<>>
      ]_vars

\* Every message the authority could be asked to route: any sender or none, any
\* channel, any whisper target or none.
AnyMessage ==
    {[FChatMessage(s, 1, ch, 0) EXCEPT !.WhisperTarget = t] :
        s \in Players \cup {None}, ch \in EChatChannel, t \in Players \cup {None}}

\* C26: UnregisterChatComponent(c) leaves c unregistered, and only a
\* RegisterChatComponent brings a component back; an accepted message is delivered
\* to registered components only, so never to one that has unregistered and not
\* registered again, on any channel; and unregistering c takes c, and nothing else,
\* out of the delivery of every message, the others keeping their order.
C26_UnregisteredGetsNothing ==
    [][ /\ last'.op = "Unregister"
           => /\ last'.by \notin Registered'
              /\ RegisteredComponents' = Remove(RegisteredComponents, last'.by)
              /\ \A m \in AnyMessage :
                    RouteMessage(m, RegisteredComponents', pawn', ChatSettings')
                      = Remove(RouteMessage(m, RegisteredComponents, pawn, ChatSettings),
                               last'.by)
        /\ \A c \in Players :
              (c \notin Registered /\ c \in Registered') => last'.op = "Register"
        /\ Accepted(last')
           => /\ Range(last'.recipients) \subseteq Registered
              /\ last'.recipients
                   = RouteMessage(last'.msg, RegisteredComponents, pawn, ChatSettings)
      ]_vars

\* C26 witness: p3 registered and then unregistered while p1 and p2 stayed; p2, whose
\* pawn has p1's and p3's within the radius, spoke on the Proximity channel and the
\* message reached p1 and p2 and not p3.
C26_Witness ==
    /\ last.op = "ServerSendMessage"
    /\ last.ok
    /\ last.by = "p2"
    /\ last.msg.Channel = "Proximity"
    /\ spawned["p3"]
    /\ "p3" \notin Registered
    /\ Registered = LeaveSenders
    /\ InProximity(pawn["p2"], pawn["p3"], ChatSettings)
    /\ InProximity(pawn["p2"], pawn["p1"], ChatSettings)
    /\ Range(last.recipients) = LeaveSenders

====
